---- MODULE Spec2Model ----
(***************************************************************************)
(* InterviewAI: answer evaluation (modules/evaluator.py), report assembly  *)
(* (modules/report_generator.py) and the interactive session (app.py).     *)
(*                                                                         *)
(* Numbers.  Python floats are modelled as exact decimals in thousandths:  *)
(* the integer 8500 is the score 8.5.  A mean total/n is kept as the       *)
(* fraction [num |-> total, den |-> n] and compared by cross               *)
(* multiplication, so no comparison in the code is blurred.                *)
(*                                                                         *)
(* Text.  A line is a sequence of tokens (strings); white space between    *)
(* tokens is implicit, a blank line is the empty sequence.  A text is a    *)
(* sequence of lines.  None is <<>>, a present value x is <<x>>.           *)
(***************************************************************************)
EXTENDS Integers, Sequences, FiniteSets, TLC

VARIABLES
    \* _get_performance_level applied to one score
    level_score, level_out,
    \* _parse_evaluation, line by line
    evaluation_text, current_section, evaluation, pc_parse,
    \* evaluate_interview_round, pair by pair
    questions_answers, evaluations, total_score, llm_calls, round_evaluation, pc_round,
    \* generate_interview_report on given round evaluations
    rep_hr, rep_tech, rep_report, pc_report,
    \* st.session_state and what the last handler showed
    resume_data, hr_questions, technical_questions, hr_answers, technical_answers,
    hr_evaluation, technical_evaluation, interview_report, message, tmp_file_exists,
    \* parse_resume on a file
    file_path, document, extractor_called, resume_text, resume_result, pc_resume,
    \* one request to the LLM: question generation or evaluate_answer
    request_kind, llm_response, generate_content_calls, request_result, pc_request,
    \* one call that works on a temporary file: the upload handler or
    \* transcribe_audio_bytes
    call_kind, temp_file, unlink_raised, transcription, call_outcome, pc_call

levelVars   == <<level_score, level_out>>
parseVars   == <<evaluation_text, current_section, evaluation, pc_parse>>
roundVars   == <<questions_answers, evaluations, total_score, llm_calls, round_evaluation, pc_round>>
reportVars  == <<rep_hr, rep_tech, rep_report, pc_report>>
sessionVars == <<resume_data, hr_questions, technical_questions, hr_answers, technical_answers,
                 hr_evaluation, technical_evaluation, interview_report, message, tmp_file_exists>>
resumeVars  == <<file_path, document, extractor_called, resume_text, resume_result, pc_resume>>
requestVars == <<request_kind, llm_response, generate_content_calls, request_result, pc_request>>
callVars    == <<call_kind, temp_file, unlink_raised, transcription, call_outcome, pc_call>>
extraVars   == <<resumeVars, requestVars, callVars>>
vars == <<levelVars, parseVars, roundVars, reportVars, sessionVars, extraVars>>

None == <<>>
Some(x) == <<x>>
IsNone(o) == o = <<>>
Get(o) == o[1]

(***************************************************************************)
(* Bounds                                                                  *)
(***************************************************************************)
\* thousandths between two scores fed to _get_performance_level
LevelStep == 10
\* most lines in an evaluation response
MaxLines == 3
\* most question/answer pairs in a round
MaxQuestions == 3

\* thousandths per point: 8.5 is 8500
Unit == 10 * 10 * 10
Frac(n, d) == [num |-> n, den |-> d]
\* score >= t for a fraction score and a threshold t in thousandths
GreaterEq(score, t) == score.num >= t * score.den

(***************************************************************************)
(* evaluator.py: _get_performance_level                                    *)
(***************************************************************************)
ExcellentMin == 8500
GoodMin == 7000
AverageMin == 5500
BelowAverageMin == 4000

Mut_get_performance_level(score) ==
    IF score.num > ExcellentMin * score.den THEN "Excellent"
    ELSE IF GreaterEq(score, GoodMin) THEN "Good"
    ELSE IF GreaterEq(score, AverageMin) THEN "Average"
    ELSE IF GreaterEq(score, BelowAverageMin) THEN "Below Average"
    ELSE "Needs Improvement"

_get_performance_level(score) ==
    IF GreaterEq(score, ExcellentMin) THEN "Excellent"
    ELSE IF GreaterEq(score, GoodMin) THEN "Good"
    ELSE IF GreaterEq(score, AverageMin) THEN "Average"
    ELSE IF GreaterEq(score, BelowAverageMin) THEN "Below Average"
    ELSE "Needs Improvement"

(***************************************************************************)
(* evaluator.py: _parse_evaluation                                         *)
(***************************************************************************)
\* float() of the number tokens a response may carry, in thousandths
NumberValue ==
    [t \in {"0", "4", "8", "8.49", "8.5", "10", "15"} |->
        CASE t = "0" -> 0
          [] t = "4" -> 4 * Unit
          [] t = "8" -> 8 * Unit
          [] t = "8.49" -> 8490
          [] t = "8.5" -> 8500
          [] t = "10" -> 10 * Unit
          [] t = "15" -> 15 * Unit]

IsNumber(t) == t \in DOMAIN NumberValue

\* re.search(r'(\d+(?:\.\d+)?)/10', line): the positions of a number that is
\* directly followed by "/10"; the search returns the leftmost one
ScoreMatches(line) ==
    {i \in 1..(Len(line) - 1) : IsNumber(line[i]) /\ line[i + 1] = "/10"}

Min(S) == CHOOSE x \in S : \A y \in S : x <= y

\* line.startswith(label)
StartsWith(line, label) == Len(line) > 0 /\ line[1] = label

\* line.replace(label, '').strip(): every occurrence of the label goes
Replace(line, label) == SelectSeq(line, LAMBDA t : t # label)

\* [item.strip() for item in content.split(',')]
RECURSIVE SplitComma(_)
SplitComma(s) ==
    IF \A i \in 1..Len(s) : s[i] # ","
    THEN <<s>>
    ELSE LET i == Min({j \in 1..Len(s) : s[j] = ","})
         IN  <<SubSeq(s, 1, i - 1)>> \o SplitComma(SubSeq(s, i + 1, Len(s)))

EmptyEvaluation ==
    [score |-> 0, strengths |-> <<>>, areas_for_improvement |-> <<>>,
     feedback |-> <<>>, overall_assessment |-> <<>>]

MutParseLine(st, line) ==
    LET ev == st.evaluation
        cs == st.current_section
    IN
    IF Len(line) = 0 THEN st
    ELSE IF StartsWith(line, "Score:") THEN
        IF ScoreMatches(line) # {}
        THEN [st EXCEPT !.evaluation.score = NumberValue[line[Min(ScoreMatches(line))]]]
        ELSE st
    ELSE IF StartsWith(line, "Strengths:") THEN
        LET content == Replace(line, "Strengths:")
        IN  [evaluation |-> IF Len(content) > 0
                            THEN [ev EXCEPT !.strengths = SplitComma(content)]
                            ELSE ev,
             current_section |-> "strengths"]
    ELSE IF StartsWith(line, "Areas for Improvement:") THEN
        LET content == Replace(line, "Areas for Improvement:")
        IN  [evaluation |-> IF Len(content) > 0
                            THEN [ev EXCEPT !.areas_for_improvement = SplitComma(content)]
                            ELSE ev,
             current_section |-> "areas_for_improvement"]
    ELSE IF StartsWith(line, "Feedback:") THEN
        [evaluation |-> [ev EXCEPT !.feedback = Replace(line, "Feedback:")],
         current_section |-> "feedback"]
    ELSE IF StartsWith(line, "Overall Assessment:") THEN
        [evaluation |-> [ev EXCEPT !.overall_assessment = Replace(line, "Overall Assessment:")],
         current_section |-> "overall_assessment"]
    ELSE IF cs = "strengths" THEN
        [st EXCEPT !.evaluation.strengths = @ \o SplitComma(line)]
    ELSE IF cs = "areas_for_improvement" THEN
        [st EXCEPT !.evaluation.areas_for_improvement = @ \o SplitComma(line)]
    ELSE IF cs = "feedback" THEN
        [st EXCEPT !.evaluation.feedback = line]
    ELSE IF cs = "overall_assessment" THEN
        [st EXCEPT !.evaluation.overall_assessment = @ \o line]
    ELSE st

\* one pass of the for loop over a stripped line; st is the pair of the
\* evaluation built so far and current_section ("none" is Python's None)
ParseLine(st, line) ==
    LET ev == st.evaluation
        cs == st.current_section
    IN
    IF Len(line) = 0 THEN st
    ELSE IF StartsWith(line, "Score:") THEN
        IF ScoreMatches(line) # {}
        THEN [st EXCEPT !.evaluation.score = NumberValue[line[Min(ScoreMatches(line))]]]
        ELSE st
    ELSE IF StartsWith(line, "Strengths:") THEN
        LET content == Replace(line, "Strengths:")
        IN  [evaluation |-> IF Len(content) > 0
                            THEN [ev EXCEPT !.strengths = SplitComma(content)]
                            ELSE ev,
             current_section |-> "strengths"]
    ELSE IF StartsWith(line, "Areas for Improvement:") THEN
        LET content == Replace(line, "Areas for Improvement:")
        IN  [evaluation |-> IF Len(content) > 0
                            THEN [ev EXCEPT !.areas_for_improvement = SplitComma(content)]
                            ELSE ev,
             current_section |-> "areas_for_improvement"]
    ELSE IF StartsWith(line, "Feedback:") THEN
        [evaluation |-> [ev EXCEPT !.feedback = Replace(line, "Feedback:")],
         current_section |-> "feedback"]
    ELSE IF StartsWith(line, "Overall Assessment:") THEN
        [evaluation |-> [ev EXCEPT !.overall_assessment = Replace(line, "Overall Assessment:")],
         current_section |-> "overall_assessment"]
    ELSE IF cs = "strengths" THEN
        [st EXCEPT !.evaluation.strengths = @ \o SplitComma(line)]
    ELSE IF cs = "areas_for_improvement" THEN
        [st EXCEPT !.evaluation.areas_for_improvement = @ \o SplitComma(line)]
    ELSE IF cs = "feedback" THEN
        [st EXCEPT !.evaluation.feedback = @ \o line]
    ELSE IF cs = "overall_assessment" THEN
        [st EXCEPT !.evaluation.overall_assessment = @ \o line]
    ELSE st

RECURSIVE ParseLines(_, _)
ParseLines(st, lines) ==
    IF lines = <<>> THEN st
    ELSE ParseLines(ParseLine(st, Head(lines)), Tail(lines))

_parse_evaluation(evaluation_text_) ==
    ParseLines([evaluation |-> EmptyEvaluation, current_section |-> "none"],
               evaluation_text_).evaluation

\* the lines a response is made of
ResponseLines ==
    { <<>>,
      <<"Score:", "8", "/10">>,
      <<"Score:", "15", "/10">>,
      <<"Score:", "high">>,
      <<"Strengths:", "clarity", ",", "depth">>,
      <<"Strengths:">>,
      <<"Areas for Improvement:", "brevity">>,
      <<"Areas for Improvement:">>,
      <<"Feedback:", "solid">>,
      <<"Overall Assessment:", "strong">>,
      <<"clarity", ",", "brevity">>,
      <<"solid">> }

SeqsUpTo(S, n) == UNION {[1..k -> S] : k \in 0..n}

EvaluationTexts == SeqsUpTo(ResponseLines, MaxLines)

(***************************************************************************)
(* evaluator.py: evaluate_answer, _generate_overall_feedback,              *)
(* evaluate_interview_round                                                *)
(***************************************************************************)
\* The model carries, for each question/answer pair, what the LLM does with
\* its prompt: None when generate_content raises, Some(text) when it answers.
LLMFails(qa) == IsNone(qa)

\* evaluate_answer on a pair whose LLM call answers
evaluate_answer(qa) == _parse_evaluation(Get(qa))

RECURSIVE Extend(_, _)
\* the concatenation of field f of every evaluation, in order
Extend(evals, f) ==
    IF evals = <<>> THEN <<>>
    ELSE Head(evals)[f] \o Extend(Tail(evals), f)

CountOf(seq, x) == Cardinality({i \in DOMAIN seq : seq[i] = x})
FirstSeen(seq, x) == Min({i \in DOMAIN seq : seq[i] = x})

MostCommonN == 3

RECURSIVE MostCommon(_, _, _)
\* Counter(seq).most_common(k): by falling count, ties in first-seen order
MostCommon(seq, k, taken) ==
    LET cand == {seq[i] : i \in DOMAIN seq} \ taken
    IN  IF k = 0 \/ cand = {} THEN <<>>
        ELSE LET best == CHOOSE x \in cand : \A y \in cand :
                             \/ CountOf(seq, x) > CountOf(seq, y)
                             \/ /\ CountOf(seq, x) = CountOf(seq, y)
                                /\ FirstSeen(seq, x) <= FirstSeen(seq, y)
             IN  <<best>> \o MostCommon(seq, k - 1, taken \cup {best})

\* the feedback sentence as its parts, each a label and the items joined in
_generate_overall_feedback(evals, average) ==
    IF evals = <<>>
    THEN <<[label |-> "No evaluations available.", items |-> <<>>]>>
    ELSE LET common_strengths == MostCommon(Extend(evals, "strengths"), MostCommonN, {})
             common_improvements ==
                 MostCommon(Extend(evals, "areas_for_improvement"), MostCommonN, {})
         IN  (IF common_strengths # <<>>
              THEN <<[label |-> "Key strengths", items |-> common_strengths]>>
              ELSE <<>>)
             \o (IF common_improvements # <<>>
                 THEN <<[label |-> "Areas to focus on", items |-> common_improvements]>>
                 ELSE <<>>)
             \o <<[label |-> "Overall performance",
                   items |-> << <<_get_performance_level(average)>> >>]>>

\* round(x, 2) of the fraction x, in thousandths.  Python rounds the binary
\* value of the quotient: a quotient exactly half way between two hundredths
\* goes to either neighbour, depending on how the double falls.
MutRound2(x) == {10 * (x.num \div (10 * x.den))}

Round2(x) ==
    LET h == x.num \div (10 * x.den)
        r == x.num % (10 * x.den)
    IN  IF 2 * r < 10 * x.den THEN {10 * h}
        ELSE IF 2 * r > 10 * x.den THEN {10 * (h + 1)}
        ELSE {10 * h, 10 * (h + 1)}

MutAverageOf(total, n) ==
    IF n # 0 THEN Some(Frac(total, n)) ELSE None

\* total_score / len(questions_answers) if questions_answers else 0: Some of
\* the quotient, None where the division raises ZeroDivisionError
AverageOf(total, n) ==
    IF n > 0 THEN Some(Frac(total, n)) ELSE Some(Frac(0, 1))

\* the round_evaluation dict; average is the quotient, rounded the value
\* round(average_score, 2) gave
RoundRecord(evals, average, n, rounded) ==
    [evaluations |-> evals,
     average_score |-> rounded,
     total_questions |-> n,
     overall_feedback |-> _generate_overall_feedback(evals, average),
     performance_level |-> _get_performance_level(average)]

EmptyLoop == [evaluations |-> <<>>, total_score |-> 0, calls |-> <<>>, raised |-> FALSE]

MutLoopStep(qas, acc) ==
    LET i == Len(acc.calls) + 1
    IN  IF LLMFails(qas[i])
        THEN [acc EXCEPT !.calls = Append(@, i)]
        ELSE LET ev == evaluate_answer(qas[i])
             IN  [acc EXCEPT !.calls = Append(@, i),
                             !.evaluations = Append(@, ev),
                             !.total_score = @ + ev.score]

MutLoopStepOrder(qas, acc) ==
    LET i == Len(qas) - Len(acc.calls)
    IN  IF LLMFails(qas[i])
        THEN [acc EXCEPT !.calls = Append(@, i), !.raised = TRUE]
        ELSE LET ev == evaluate_answer(qas[i])
             IN  [acc EXCEPT !.calls = Append(@, i),
                             !.evaluations = Append(@, ev),
                             !.total_score = @ + ev.score]

\* one pass of the for loop, on the next pair: acc holds evaluations,
\* total_score, the indices of the pairs whose LLM call has been made, and
\* whether evaluate_answer raised
LoopStep(qas, acc) ==
    LET i == Len(acc.calls) + 1
    IN  IF LLMFails(qas[i])
        THEN [acc EXCEPT !.calls = Append(@, i), !.raised = TRUE]
        ELSE LET ev == evaluate_answer(qas[i])
             IN  [acc EXCEPT !.calls = Append(@, i),
                             !.evaluations = Append(@, ev),
                             !.total_score = @ + ev.score]

RECURSIVE RunLoop(_, _)
RunLoop(qas, acc) ==
    IF acc.raised \/ Len(acc.calls) >= Len(qas) THEN acc
    ELSE RunLoop(qas, LoopStep(qas, acc))

\* what follows the loop: the set of values the call can return, empty when
\* the computation of the average raises
AfterLoop(qas, acc) ==
    LET average == AverageOf(acc.total_score, Len(qas))
    IN  IF IsNone(average) THEN {}
        ELSE {RoundRecord(acc.evaluations, Get(average), Len(qas), a) :
              a \in Round2(Get(average))}

\* every outcome evaluate_interview_round can have on qas: it raises
\* (value None) or returns a round evaluation
evaluate_interview_round(qas) ==
    LET run == RunLoop(qas, EmptyLoop)
    IN  IF run.raised \/ AfterLoop(qas, run) = {}
        THEN {[value |-> None, calls |-> run.calls]}
        ELSE {[value |-> Some(r), calls |-> run.calls] : r \in AfterLoop(qas, run)}

\* what the LLM may do with one evaluation prompt in a round
ScoreTokens == {"0", "4", "8.49", "8.5", "10"}
RoundResponses ==
    {None} \cup {Some(<< <<"Score:", t, "/10">> >>) : t \in ScoreTokens}
           \cup {Some(<< <<"Score:", "8", "/10">>, <<"Strengths:", "clarity">> >>)}

RoundInputs == SeqsUpTo(RoundResponses, MaxQuestions)

(***************************************************************************)
(* report_generator.py                                                     *)
(***************************************************************************)
\* a dict argument is truthy when it is given (a round evaluation is never
\* an empty dict)
Present(ev) == ~IsNone(ev)

SumSeq(q) == IF Len(q) = 0 THEN 0 ELSE IF Len(q) = 1 THEN q[1] ELSE q[1] + q[2]

_create_interview_summary(hr, tech) ==
    LET hr_scores == IF Present(hr) THEN <<Get(hr).average_score>> ELSE <<>>
        tech_scores == IF Present(tech) THEN <<Get(tech).average_score>> ELSE <<>>
        average_scores == hr_scores \o tech_scores
    IN  [total_questions |-> (IF Present(hr) THEN Get(hr).total_questions ELSE 0)
                             + (IF Present(tech) THEN Get(tech).total_questions ELSE 0),
         average_scores |-> [hr_round |-> hr_scores, technical_round |-> tech_scores],
         performance_levels |->
             [hr_round |-> IF Present(hr) THEN <<Get(hr).performance_level>> ELSE <<>>,
              technical_round |-> IF Present(tech) THEN <<Get(tech).performance_level>> ELSE <<>>],
         rounds_completed |-> (IF Present(hr) THEN <<"HR Round">> ELSE <<>>)
                              \o (IF Present(tech) THEN <<"Technical Round">> ELSE <<>>),
         overall_average |-> IF average_scores # <<>>
                             THEN Frac(SumSeq(average_scores), Len(average_scores))
                             ELSE Frac(0, 1)]

StrongMin == 8000
GoodCandidateMin == 6500
AverageCandidateMin == 5000

MutRecommendation(overall_score) ==
    IF GreaterEq(overall_score, StrongMin)
    THEN "Strong candidate - Highly recommended"
    ELSE IF overall_score.num > GoodCandidateMin * overall_score.den
    THEN "Good candidate - Recommended"
    ELSE IF GreaterEq(overall_score, AverageCandidateMin)
    THEN "Average candidate - Consider for specific roles"
    ELSE "Needs improvement - Not recommended at this time"

\* the if/elif chain that sets assessment['recommendation']
Recommendation(overall_score) ==
    IF GreaterEq(overall_score, StrongMin)
    THEN "Strong candidate - Highly recommended"
    ELSE IF GreaterEq(overall_score, GoodCandidateMin)
    THEN "Good candidate - Recommended"
    ELSE IF GreaterEq(overall_score, AverageCandidateMin)
    THEN "Average candidate - Consider for specific roles"
    ELSE "Needs improvement - Not recommended at this time"

Mut_create_overall_assessment(hr, tech) ==
    LET scores == (IF Present(hr) /\ Get(hr).average_score # 0
                   THEN <<Get(hr).average_score>> ELSE <<>>)
                  \o (IF Present(tech) /\ Get(tech).average_score # 0
                      THEN <<Get(tech).average_score>> ELSE <<>>)
        overall_score == IF scores # <<>> THEN Frac(SumSeq(scores), 2) ELSE Frac(0, 1)
    IN  [overall_score |-> overall_score,
         strengths |-> <<>>,
         areas_for_improvement |-> <<>>,
         recommendation |-> Recommendation(overall_score)]

_create_overall_assessment(hr, tech) ==
    LET scores == (IF Present(hr) /\ Get(hr).average_score # 0
                   THEN <<Get(hr).average_score>> ELSE <<>>)
                  \o (IF Present(tech) /\ Get(tech).average_score # 0
                      THEN <<Get(tech).average_score>> ELSE <<>>)
        overall_score == IF scores # <<>> THEN Frac(SumSeq(scores), Len(scores))
                         ELSE Frac(0, 1)
    IN  [overall_score |-> overall_score,
         strengths |-> <<>>,
         areas_for_improvement |-> <<>>,
         recommendation |-> Recommendation(overall_score)]

TipThreshold == 6000
HRTips == <<"Focus on improving communication and interpersonal skills",
            "Practice behavioral interview questions">>
TechnicalTips == <<"Strengthen technical knowledge in core areas",
                   "Practice coding problems and system design questions">>
GenericTips == <<"Continue building on current strengths",
                 "Consider advanced training in specialized areas">>

Mut_generate_recommendations(hr, tech) ==
    (IF Present(hr) /\ Get(hr).average_score < TipThreshold THEN HRTips ELSE <<>>)
    \o (IF Present(tech) /\ Get(tech).average_score < TipThreshold
        THEN TechnicalTips ELSE <<>>)
    \o (IF ~(Present(hr) /\ Get(hr).average_score < TipThreshold)
        THEN GenericTips ELSE <<>>)

_generate_recommendations(hr, tech) ==
    LET recommendations ==
            (IF Present(hr) /\ Get(hr).average_score < TipThreshold THEN HRTips ELSE <<>>)
            \o (IF Present(tech) /\ Get(tech).average_score < TipThreshold
                THEN TechnicalTips ELSE <<>>)
    IN  IF recommendations = <<>> THEN GenericTips ELSE recommendations

\* the report_data dict (the charts, the time stamp and the two file paths
\* are left out: nothing reads them back)
generate_interview_report(resume, hr, tech) ==
    [candidate_info |-> resume,
     interview_summary |-> _create_interview_summary(hr, tech),
     detailed_evaluations |-> [hr_round |-> hr, technical_round |-> tech],
     overall_assessment |-> _create_overall_assessment(hr, tech),
     recommendations |-> _generate_recommendations(hr, tech)]

(***************************************************************************)
(* resume_parser.py                                                        *)
(***************************************************************************)
\* A line of a document is a sequence of tokens: words, and " " for the
\* whitespace a line may start or end with. Words are one space apart.
\* A text is the sequence of its lines; <<>> is the empty string.
lower ==
    [w \in {"Experience", "Experienced", "experience", "Work", "EDUCATION", "Academic",
            "Background", "Engineer", "engineer", "at", "Acme", "my", "Python", "a@b.c",
            "555-123-4567", "BSc", "Physics", " ",
            ".pdf", ".PDF", ".docx", ".doc", ".Doc", ".txt", "cv"} |->
        CASE w = "Experience" -> "experience"
          [] w = "Experienced" -> "experienced"
          [] w = "Work" -> "work"
          [] w = "EDUCATION" -> "education"
          [] w = "Academic" -> "academic"
          [] w = "Background" -> "background"
          [] w = "Engineer" -> "engineer"
          [] w = "Acme" -> "acme"
          [] w = "Python" -> "python"
          [] w = "BSc" -> "bsc"
          [] w = "Physics" -> "physics"
          [] w = ".PDF" -> ".pdf"
          [] w = ".Doc" -> ".doc"
          [] OTHER -> w]

\* str.lstrip(), str.rstrip() and str.strip() of a line
RECURSIVE LStrip(_)
LStrip(line) ==
    IF line # <<>> /\ Head(line) = " " THEN LStrip(Tail(line)) ELSE line
RECURSIVE RStrip(_)
RStrip(line) ==
    IF line # <<>> /\ line[Len(line)] = " "
    THEN RStrip(SubSeq(line, 1, Len(line) - 1)) ELSE line
StripLine(line) == RStrip(LStrip(line))

\* str.strip() of a text: the blank lines at both ends go, and so does the
\* whitespace before the first and after the last character
RECURSIVE StripText(_)
StripText(lines) ==
    IF lines = <<>> THEN <<>>
    ELSE IF StripLine(Head(lines)) = <<>> THEN StripText(Tail(lines))
    ELSE IF StripLine(lines[Len(lines)]) = <<>>
    THEN StripText(SubSeq(lines, 1, Len(lines) - 1))
    ELSE IF Len(lines) = 1 THEN <<StripLine(lines[1])>>
    ELSE <<LStrip(lines[1])>> \o SubSeq(lines, 2, Len(lines) - 1)
         \o <<RStrip(lines[Len(lines)])>>

\* extract_skills: the matches of the skill patterns, as a set
SkillWords == {"python"}
extract_skills(text_) ==
    {t \in UNION {{text_[i][j] : j \in 1..Len(text_[i])} : i \in DOMAIN text_} :
        lower[t] \in SkillWords}

\* re.search over the text: the first token, in reading order, of a kind
EmailWords == {"a@b.c"}
PhoneWords == {"555-123-4567"}
RECURSIVE Flatten(_)
Flatten(lines) == IF lines = <<>> THEN <<>> ELSE Head(lines) \o Flatten(Tail(lines))
FirstOf(text_, kind) ==
    LET all == SelectSeq(Flatten(text_), LAMBDA t : t \in kind)
    IN  IF all = <<>> THEN None ELSE Some(Head(all))
extract_contact_info(text_) ==
    [email |-> FirstOf(text_, EmailWords), phone |-> FirstOf(text_, PhoneWords)]

\* section_headers, each with the words of its phrase
section_headers ==
    << <<"experience">>, <<"work", "experience">>, <<"employment">>,
       <<"education">>, <<"academic", "background">>,
       <<"skills">>, <<"technical", "skills">>, <<"core", "competencies">>,
       <<"projects">>, <<"personal", "projects">>,
       <<"certifications">>, <<"certificates">>,
       <<"summary">>, <<"objective">>, <<"profile">> >>

\* the one-word header phrases that are substrings of a lower-cased word
SubstringsOf(w) ==
    IF w \in {"experience", "experienced"} THEN {"experience"}
    ELSE IF w = "education" THEN {"education"}
    ELSE {}

\* header.lower() in line.lower()
HeaderIn(header, line) ==
    IF Len(header) = 1
    THEN \E i \in 1..Len(line) : header[1] \in SubstringsOf(lower[line[i]])
    ELSE \E i \in 1..(Len(line) - 1) :
            lower[line[i]] = header[1] /\ lower[line[i + 1]] = header[2]

\* len(line.split())
WordCount(line) == Len(SelectSeq(line, LAMBDA t : t # " "))

MaxHeaderWords == 3

\* the headers, in list order, a stripped line is taken for
MatchingHeaders(line) ==
    SelectSeq(section_headers,
              LAMBDA h : HeaderIn(h, line) /\ WordCount(line) <= MaxHeaderWords)

\* sections[key] = content
Store(sections, key, content) ==
    [k \in DOMAIN sections \cup {key} |-> IF k = key THEN content ELSE sections[k]]

EmptySections == [k \in {} |-> <<>>]

\* one pass of the loop over the lines of the text
SectionsLine(st, raw) ==
    LET line == StripLine(raw)
    IN  IF line = <<>> THEN st
        ELSE IF MatchingHeaders(line) # <<>>
        THEN [sections |-> IF st.current_content # <<>>
                           THEN Store(st.sections, st.current_section, st.current_content)
                           ELSE st.sections,
              current_section |-> Head(MatchingHeaders(line)),
              current_content |-> <<>>]
        ELSE [st EXCEPT !.current_content = @ \o <<line>>]

RECURSIVE SectionsLines(_, _)
SectionsLines(st, lines) ==
    IF lines = <<>> THEN st
    ELSE SectionsLines(SectionsLine(st, Head(lines)), Tail(lines))

\* the sections as a function from key to the lines of the content
Mut_parse_sections(text_) ==
    LET st == SectionsLines([sections |-> EmptySections, current_section |-> <<"other">>,
                             current_content |-> <<>>], text_)
    IN  st.sections

_parse_sections(text_) ==
    LET st == SectionsLines([sections |-> EmptySections, current_section |-> <<"other">>,
                             current_content |-> <<>>], text_)
    IN  IF st.current_content # <<>>
        THEN Store(st.sections, st.current_section, st.current_content)
        ELSE st.sections

\* the extractor parse_resume picks for a path
MutExtractorFor(path) ==
    IF lower[path[Len(path)]] = ".pdf" THEN "pdf"
    ELSE IF lower[path[Len(path)]] \in {".docx", ".doc"} THEN "docx"
    ELSE "pdf"

ExtractorFor(path) ==
    IF lower[path[Len(path)]] = ".pdf" THEN "pdf"
    ELSE IF lower[path[Len(path)]] \in {".docx", ".doc"} THEN "docx"
    ELSE "none"

(***************************************************************************)
(* question_generator.py                                                   *)
(***************************************************************************)
\* A line of the response is a sequence of chunks of text, one space apart,
\* and " " for the whitespace a line may start or end with.
\* len(chunk)
CharLen ==
    [w \in {"1.", "2.", "hi", "Why Python", "Why Python?", "3.14159 ok?", "14159 ok?",
            "Tell me about a challenge you overcame",
            "Explain how you lead a team design",
            "Design a database tool in code"} |->
        CASE w = "1." -> 2
          [] w = "2." -> 2
          [] w = "hi" -> 2
          [] w = "Why Python" -> 10
          [] w = "Why Python?" -> 11
          [] w = "3.14159 ok?" -> 11
          [] w = "14159 ok?" -> 9
          [] w = "Tell me about a challenge you overcame" -> 38
          [] w = "Explain how you lead a team design" -> 34
          [] w = "Design a database tool in code" -> 30]

\* len(line) of a stripped line
RECURSIVE LineLength(_)
LineLength(line) ==
    IF line = <<>> THEN 0
    ELSE IF Len(line) = 1 THEN CharLen[line[1]]
    ELSE CharLen[line[1]] + 1 + LineLength(Tail(line))

\* what re.sub(r'^\d+\.', '', chunk) leaves of a chunk
AfterNumber(w) ==
    IF w \in {"1.", "2."} THEN ""
    ELSE IF w = "3.14159 ok?" THEN "14159 ok?"
    ELSE w

\* re.sub(r'^\d+\.\s*', '', line) of a stripped line
StripNumbering(line) ==
    IF line = <<>> THEN line
    ELSE IF AfterNumber(Head(line)) = "" THEN Tail(line)
    ELSE <<AfterNumber(Head(line))>> \o Tail(line)

\* the keywords of the difficulty and category lists a lower-cased chunk contains
KeywordsIn(w) ==
    IF w \in {"Why Python", "Why Python?"} THEN {"why"}
    ELSE IF w = "Tell me about a challenge you overcame" THEN {"challenge"}
    ELSE IF w = "Explain how you lead a team design"
    THEN {"explain", "how", "lead", "team", "design"}
    ELSE IF w = "Design a database tool in code"
    THEN {"design", "database", "data", "tool", "code"}
    ELSE {}

\* any(word in question_lower for word in words)
AnyIn(words, line) == \E i \in 1..Len(line) : KeywordsIn(line[i]) \cap words # {}

_assess_difficulty(question) ==
    IF AnyIn({"explain", "describe", "analyze", "compare", "evaluate"}, question) THEN "Hard"
    ELSE IF AnyIn({"what", "how", "why", "when", "where"}, question) THEN "Medium"
    ELSE "Easy"

Mut_categorize_question(question, question_type) ==
    IF question_type = "HR"
    THEN IF AnyIn({"lead", "leadership", "manage"}, question) THEN "Leadership"
         ELSE IF AnyIn({"team", "teamwork", "collaboration"}, question) THEN "Teamwork"
         ELSE IF AnyIn({"problem", "challenge", "difficult"}, question) THEN "Problem Solving"
         ELSE IF AnyIn({"goal", "career", "future"}, question) THEN "Career Goals"
         ELSE "General HR"
    ELSE IF AnyIn({"code", "programming", "algorithm"}, question) THEN "Programming"
         ELSE IF AnyIn({"database", "sql", "data"}, question) THEN "Database"
         ELSE IF AnyIn({"system", "architecture", "design"}, question) THEN "System Design"
         ELSE IF AnyIn({"framework", "library", "tool"}, question) THEN "Frameworks & Tools"
         ELSE "General Technical"

_categorize_question(question, question_type) ==
    IF question_type = "HR"
    THEN IF AnyIn({"team", "teamwork", "collaboration"}, question) THEN "Teamwork"
         ELSE IF AnyIn({"lead", "leadership", "manage"}, question) THEN "Leadership"
         ELSE IF AnyIn({"problem", "challenge", "difficult"}, question) THEN "Problem Solving"
         ELSE IF AnyIn({"goal", "career", "future"}, question) THEN "Career Goals"
         ELSE "General HR"
    ELSE IF AnyIn({"code", "programming", "algorithm"}, question) THEN "Programming"
         ELSE IF AnyIn({"database", "sql", "data"}, question) THEN "Database"
         ELSE IF AnyIn({"system", "architecture", "design"}, question) THEN "System Design"
         ELSE IF AnyIn({"framework", "library", "tool"}, question) THEN "Frameworks & Tools"
         ELSE "General Technical"

MinQuestionLength == 10

\* one pass of the loop over the lines of the response
QuestionsLine(questions, raw, question_type) ==
    LET stripped == StripLine(raw)
        line == StripNumbering(stripped)
    IN  IF stripped = <<>> THEN questions
        ELSE IF line # <<>> /\ LineLength(line) > MinQuestionLength
        THEN Append(questions, [question |-> line,
                                type |-> question_type,
                                difficulty |-> _assess_difficulty(line),
                                category |-> _categorize_question(line, question_type)])
        ELSE questions

RECURSIVE QuestionsLines(_, _, _)
QuestionsLines(questions, lines, question_type) ==
    IF lines = <<>> THEN questions
    ELSE QuestionsLines(QuestionsLine(questions, Head(lines), question_type),
                        Tail(lines), question_type)

_parse_questions(questions_text, question_type) ==
    QuestionsLines(<<>>, questions_text, question_type)

(***************************************************************************)
(* Resting values of the parts a specification does not exercise           *)
(***************************************************************************)
IdleResume ==
    /\ file_path = <<>> /\ document = <<>> /\ extractor_called = "none"
    /\ resume_text = None /\ resume_result = None /\ pc_resume = "idle"
IdleRequest ==
    /\ request_kind = "idle" /\ llm_response = None /\ generate_content_calls = 0
    /\ request_result = None /\ pc_request = "idle"
IdleCall ==
    /\ call_kind = "idle" /\ temp_file = "none" /\ unlink_raised = FALSE
    /\ transcription = None /\ call_outcome = "idle" /\ pc_call = "idle"
IdleExtra == IdleResume /\ IdleRequest /\ IdleCall

IdleLevel == level_score = 0 /\ level_out = None
IdleParse ==
    /\ evaluation_text = <<>>
    /\ current_section = "none"
    /\ evaluation = EmptyEvaluation
    /\ pc_parse = 1
IdleRound ==
    /\ questions_answers = <<>>
    /\ evaluations = <<>>
    /\ total_score = 0
    /\ llm_calls = <<>>
    /\ round_evaluation = None
    /\ pc_round = "idle"
IdleReport == rep_hr = None /\ rep_tech = None /\ rep_report = None /\ pc_report = "idle"
IdleSession ==
    /\ resume_data = None
    /\ hr_questions = <<>>
    /\ technical_questions = <<>>
    /\ hr_answers = <<>>
    /\ technical_answers = <<>>
    /\ hr_evaluation = None
    /\ technical_evaluation = None
    /\ interview_report = None
    /\ message = "none"
    /\ tmp_file_exists = FALSE

(***************************************************************************)
(* SpecLevel: _get_performance_level on every score of [0, 10]             *)
(***************************************************************************)
LevelScores == {k * LevelStep : k \in 0..((10 * Unit) \div LevelStep)}

InitLevel ==
    /\ level_score \in LevelScores
    /\ level_out = None
    /\ IdleParse /\ IdleRound /\ IdleReport /\ IdleSession /\ IdleExtra

GetPerformanceLevel ==
    /\ level_out = None
    /\ level_out' = Some(_get_performance_level(Frac(level_score, 1)))
    /\ UNCHANGED <<level_score, parseVars, roundVars, reportVars, sessionVars, extraVars>>

NextLevel == GetPerformanceLevel
SpecLevel == InitLevel /\ [][NextLevel]_vars

(***************************************************************************)
(* SpecParse: _parse_evaluation, one line of the response per step         *)
(***************************************************************************)
InitParse ==
    /\ evaluation_text \in EvaluationTexts
    /\ current_section = "none"
    /\ evaluation = EmptyEvaluation
    /\ pc_parse = 1
    /\ IdleLevel /\ IdleRound /\ IdleReport /\ IdleSession /\ IdleExtra

\* pc_parse is the number of the line the loop takes next; the function has
\* returned once it is past the last line
ParseDone == pc_parse = Len(evaluation_text) + 1

ParseNextLine ==
    /\ pc_parse <= Len(evaluation_text)
    /\ LET st == ParseLine([evaluation |-> evaluation, current_section |-> current_section],
                           evaluation_text[pc_parse])
       IN  /\ evaluation' = st.evaluation
           /\ current_section' = st.current_section
    /\ pc_parse' = pc_parse + 1
    /\ UNCHANGED <<evaluation_text, levelVars, roundVars, reportVars, sessionVars, extraVars>>

\* the response texts made of exactly one line per label, in any order
ScoreLines == { <<"Score:", "8", "/10">>, <<"Score:", "8.5", "/10">> }
StrengthsLines == { <<"Strengths:", "clarity", ",", "depth">>, <<"Strengths:", "clarity">>,
                    <<"Strengths:">> }
AreasLines == { <<"Areas for Improvement:", "brevity">> }
FeedbackLines == { <<"Feedback:", "solid", "answer">>,
                   <<"Feedback:", "see", "Feedback:", "above">> }
OverallLines == { <<"Overall Assessment:", "strong">> }

Permutations5 == {p \in [1..5 -> 1..5] : \A i, j \in 1..5 : p[i] = p[j] => i = j}

WellFormedTexts ==
    {[i \in 1..5 |-> <<sc, st, ar, fb, ov>>[p[i]]] :
        sc \in ScoreLines, st \in StrengthsLines, ar \in AreasLines,
        fb \in FeedbackLines, ov \in OverallLines, p \in Permutations5}

InitWellFormed ==
    /\ evaluation_text \in WellFormedTexts
    /\ current_section = "none"
    /\ evaluation = EmptyEvaluation
    /\ pc_parse = 1
    /\ IdleLevel /\ IdleRound /\ IdleReport /\ IdleSession /\ IdleExtra

NextParse == ParseNextLine
SpecParse == InitParse /\ [][NextParse]_vars
SpecWellFormed == InitWellFormed /\ [][NextParse]_vars

(***************************************************************************)
(* SpecRound: evaluate_interview_round, one pair per step                  *)
(***************************************************************************)
InitRound ==
    /\ questions_answers \in RoundInputs
    /\ evaluations = <<>>
    /\ total_score = 0
    /\ llm_calls = <<>>
    /\ round_evaluation = None
    /\ pc_round = "loop"
    /\ IdleLevel /\ IdleParse /\ IdleReport /\ IdleSession /\ IdleExtra

LoopState == [evaluations |-> evaluations, total_score |-> total_score,
              calls |-> llm_calls, raised |-> FALSE]

\* one iteration: the LLM call for the next pair, then either the parsed
\* evaluation is appended or the exception leaves the function
EvaluateNextPair ==
    /\ pc_round = "loop"
    /\ Len(llm_calls) < Len(questions_answers)
    /\ LET acc == LoopStep(questions_answers, LoopState)
       IN  /\ evaluations' = acc.evaluations
           /\ total_score' = acc.total_score
           /\ llm_calls' = acc.calls
           /\ pc_round' = IF acc.raised THEN "failed" ELSE "loop"
    /\ UNCHANGED <<questions_answers, round_evaluation,
                   levelVars, parseVars, reportVars, sessionVars, extraVars>>

\* the loop is over: average, feedback, level, return; an exception on the
\* way leaves through the except clause
ReturnRound ==
    /\ pc_round = "loop"
    /\ Len(llm_calls) >= Len(questions_answers)
    /\ LET outs == AfterLoop(questions_answers, LoopState)
       IN  /\ round_evaluation' \in IF outs = {} THEN {None} ELSE {Some(r) : r \in outs}
           /\ pc_round' = IF outs = {} THEN "failed" ELSE "done"
    /\ UNCHANGED <<questions_answers, evaluations, total_score, llm_calls,
                   levelVars, parseVars, reportVars, sessionVars, extraVars>>

NextRound == EvaluateNextPair \/ ReturnRound
SpecRound == InitRound /\ [][NextRound]_vars

(***************************************************************************)
(* SpecReport: generate_interview_report on given round evaluations        *)
(***************************************************************************)
\* thousandths between two round averages given to the report
ReportStep == 100

ReportAverages == {k * ReportStep : k \in 0..((10 * Unit) \div ReportStep)}

\* a round evaluation whose average is a
RoundWithAverage(a) ==
    RoundRecord(<<[EmptyEvaluation EXCEPT !.score = a]>>, Frac(a, 1), 1, a)

ReportRounds == {None} \cup {Some(RoundWithAverage(a)) : a \in ReportAverages}

InitReport ==
    /\ rep_hr \in ReportRounds
    /\ rep_tech \in ReportRounds
    /\ rep_report = None
    /\ pc_report = "call"
    /\ IdleLevel /\ IdleParse /\ IdleRound /\ IdleSession /\ IdleExtra

GenerateInterviewReport ==
    /\ pc_report = "call"
    /\ rep_report' = Some(generate_interview_report(None, rep_hr, rep_tech))
    /\ pc_report' = "done"
    /\ UNCHANGED <<rep_hr, rep_tech, levelVars, parseVars, roundVars, sessionVars, extraVars>>

NextReport == GenerateInterviewReport
SpecReport == InitReport /\ [][NextReport]_vars

(***************************************************************************)
(* Spec: the interactive session of app.py.  One action is one script run  *)
(* with one widget used; message is what that run showed.                  *)
(***************************************************************************)
\* documents a user uploads
MaxResumes == 2
\* most questions a generation request yields in the session
MaxSessionQuestions == 1

ResumeIds == 1..MaxResumes
AnswerTexts == {"", " ", "a"}
\* answer.strip()
Strip(answer) == IF answer = " " THEN "" ELSE answer

\* what the LLM may do with one evaluation prompt in the session
SessionResponses == {None, Some(<< <<"Score:", "8", "/10">> >>)}

\* the question records one generation request yields for resume r: the LLM
\* answered with n usable lines
Questions(r, kind, n) ==
    [i \in 1..n |-> [question |-> [resume |-> r, no |-> i], type |-> kind]]

\* "Initialize answers if not exists"
SyncAnswers(questions, answers) ==
    IF Len(answers) # Len(questions)
    THEN [i \in 1..Len(questions) |-> ""]
    ELSE answers

Init ==
    /\ IdleSession
    /\ IdleLevel /\ IdleParse /\ IdleRound /\ IdleReport /\ IdleExtra

others == <<levelVars, parseVars, roundVars, reportVars, extraVars>>

\* show_resume_upload_page with a file chosen that is over MAX_FILE_SIZE
UploadTooLarge ==
    /\ message' = "error"
    /\ UNCHANGED <<resume_data, hr_questions, technical_questions, hr_answers,
                   technical_answers, hr_evaluation, technical_evaluation,
                   interview_report, tmp_file_exists, others>>

\* show_resume_upload_page with a file chosen, parse_resume raises: the
\* except clause shows the error and deletes the temporary file, which
\* works or raises
UploadParseFails ==
    /\ \E cleanup_ok \in BOOLEAN : tmp_file_exists' = ~cleanup_ok
    /\ message' = "error"
    /\ UNCHANGED <<resume_data, hr_questions, technical_questions, hr_answers,
                   technical_answers, hr_evaluation, technical_evaluation,
                   interview_report, others>>

\* show_resume_upload_page with a file chosen, parse_resume returns: the
\* result is stored, then os.unlink in the try block works or raises; when
\* it raises the except clause shows the error and tries the deletion again
UploadResume ==
    /\ \E doc \in ResumeIds : resume_data' = Some(doc)
    /\ \E unlink \in {"ok", "raises", "raises twice"} :
        /\ message' = IF unlink = "ok" THEN "success" ELSE "error"
        /\ tmp_file_exists' = (unlink = "raises twice")
    /\ UNCHANGED <<hr_questions, technical_questions, hr_answers, technical_answers,
                   hr_evaluation, technical_evaluation, interview_report, others>>

MutGenerateHRQuestions ==
    /\ Present(resume_data)
    /\ \E llm_ok \in BOOLEAN, n \in 0..MaxSessionQuestions :
        IF llm_ok
        THEN /\ hr_questions' = Questions(Get(resume_data), "HR", n)
             /\ hr_answers' = IF n > 0 THEN SyncAnswers(hr_questions', hr_answers)
                              ELSE hr_answers
             /\ message' = "success"
        ELSE /\ message' = "error"
             /\ UNCHANGED <<hr_questions, hr_answers>>
    /\ UNCHANGED <<resume_data, technical_questions, technical_answers, hr_evaluation,
                   technical_evaluation, interview_report, tmp_file_exists, others>>

\* show_hr_interview_page, "Generate HR Questions" pressed
GenerateHRQuestions ==
    /\ Present(resume_data)
    /\ hr_questions = <<>>
    /\ \E llm_ok \in BOOLEAN, n \in 0..MaxSessionQuestions :
        IF llm_ok
        THEN /\ hr_questions' = Questions(Get(resume_data), "HR", n)
             /\ hr_answers' = IF n > 0 THEN SyncAnswers(hr_questions', hr_answers)
                              ELSE hr_answers
             /\ message' = "success"
        ELSE /\ message' = "error"
             /\ UNCHANGED <<hr_questions, hr_answers>>
    /\ UNCHANGED <<resume_data, technical_questions, technical_answers, hr_evaluation,
                   technical_evaluation, interview_report, tmp_file_exists, others>>

\* show_technical_interview_page, "Generate Technical Questions" pressed
GenerateTechnicalQuestions ==
    /\ Present(resume_data)
    /\ technical_questions = <<>>
    /\ \E llm_ok \in BOOLEAN, n \in 0..MaxSessionQuestions :
        IF llm_ok
        THEN /\ technical_questions' = Questions(Get(resume_data), "Technical", n)
             /\ technical_answers' = IF n > 0
                                     THEN SyncAnswers(technical_questions', technical_answers)
                                     ELSE technical_answers
             /\ message' = "success"
        ELSE /\ message' = "error"
             /\ UNCHANGED <<technical_questions, technical_answers>>
    /\ UNCHANGED <<resume_data, hr_questions, hr_answers, hr_evaluation,
                   technical_evaluation, interview_report, tmp_file_exists, others>>

\* show_hr_interview_page, the text of answer i changed
EditHRAnswer ==
    /\ Present(resume_data)
    /\ hr_questions # <<>>
    /\ \E i \in 1..Len(hr_questions), text \in AnswerTexts :
        hr_answers' = [SyncAnswers(hr_questions, hr_answers) EXCEPT ![i] = text]
    /\ message' = "none"
    /\ UNCHANGED <<resume_data, hr_questions, technical_questions, technical_answers,
                   hr_evaluation, technical_evaluation, interview_report,
                   tmp_file_exists, others>>

\* show_technical_interview_page, the text of answer i changed
EditTechnicalAnswer ==
    /\ Present(resume_data)
    /\ technical_questions # <<>>
    /\ \E i \in 1..Len(technical_questions), text \in AnswerTexts :
        technical_answers' =
            [SyncAnswers(technical_questions, technical_answers) EXCEPT ![i] = text]
    /\ message' = "none"
    /\ UNCHANGED <<resume_data, hr_questions, technical_questions, hr_answers,
                   hr_evaluation, technical_evaluation, interview_report,
                   tmp_file_exists, others>>

\* an answer is left blank
AnyBlank(answers) == \E i \in 1..Len(answers) : Strip(answers[i]) = ""

\* show_hr_interview_page, "Evaluate HR Interview" pressed
EvaluateHR ==
    /\ Present(resume_data)
    /\ hr_questions # <<>>
    /\ hr_answers' = SyncAnswers(hr_questions, hr_answers)
    /\ IF AnyBlank(hr_answers')
       THEN message' = "warning" /\ UNCHANGED hr_evaluation
       ELSE \E qa_pairs \in [1..Len(hr_questions) -> SessionResponses] :
            \E out \in evaluate_interview_round(qa_pairs) :
                IF Present(out.value)
                THEN hr_evaluation' = out.value /\ message' = "success"
                ELSE message' = "error" /\ UNCHANGED hr_evaluation
    /\ UNCHANGED <<resume_data, hr_questions, technical_questions, technical_answers,
                   technical_evaluation, interview_report, tmp_file_exists, others>>

\* show_technical_interview_page, "Evaluate Technical Interview" pressed
EvaluateTechnical ==
    /\ Present(resume_data)
    /\ technical_questions # <<>>
    /\ technical_answers' = SyncAnswers(technical_questions, technical_answers)
    /\ IF AnyBlank(technical_answers')
       THEN message' = "warning" /\ UNCHANGED technical_evaluation
       ELSE \E qa_pairs \in [1..Len(technical_questions) -> SessionResponses] :
            \E out \in evaluate_interview_round(qa_pairs) :
                IF Present(out.value)
                THEN technical_evaluation' = out.value /\ message' = "success"
                ELSE message' = "error" /\ UNCHANGED technical_evaluation
    /\ UNCHANGED <<resume_data, hr_questions, technical_questions, hr_answers,
                   hr_evaluation, interview_report, tmp_file_exists, others>>

\* show_results_page, "Generate Complete Report" pressed
MutGenerateReport ==
    /\ interview_report = None
    /\ \E write_ok \in BOOLEAN :
        IF write_ok
        THEN /\ interview_report' =
                    Some(generate_interview_report(resume_data, hr_evaluation,
                                                   technical_evaluation))
             /\ message' = "success"
        ELSE message' = "error" /\ UNCHANGED interview_report
    /\ UNCHANGED <<resume_data, hr_questions, technical_questions, hr_answers,
                   technical_answers, hr_evaluation, technical_evaluation,
                   tmp_file_exists, others>>

GenerateReport ==
    /\ Present(hr_evaluation) \/ Present(technical_evaluation)
    /\ interview_report = None
    /\ \E write_ok \in BOOLEAN :
        IF write_ok
        THEN /\ interview_report' =
                    Some(generate_interview_report(resume_data, hr_evaluation,
                                                   technical_evaluation))
             /\ message' = "success"
        ELSE message' = "error" /\ UNCHANGED interview_report
    /\ UNCHANGED <<resume_data, hr_questions, technical_questions, hr_answers,
                   technical_answers, hr_evaluation, technical_evaluation,
                   tmp_file_exists, others>>

Next ==
    \/ UploadTooLarge
    \/ UploadParseFails
    \/ UploadResume
    \/ GenerateHRQuestions
    \/ GenerateTechnicalQuestions
    \/ EditHRAnswer
    \/ EditTechnicalAnswer
    \/ EvaluateHR
    \/ EvaluateTechnical
    \/ GenerateReport

Spec == Init /\ [][Next]_vars

(***************************************************************************)
(* SpecResume: parse_resume on one file                                    *)
(***************************************************************************)
MaxDocLines == 3

\* the lines a document is made of
DocumentLines ==
    { <<>>,
      <<" ">>,
      <<"Experience">>,
      <<"Experienced", "engineer">>,
      <<"EDUCATION">>,
      <<"Academic", "Background">>,
      <<"Engineer", "at", "Acme">>,
      <<" ", "BSc", "Physics", " ">>,
      <<"my", "experience", "at", "Acme">>,
      <<"Python", "a@b.c", "555-123-4567">> }

Documents == SeqsUpTo(DocumentLines, MaxDocLines)

FilePaths == {<<"cv", e>> : e \in {".pdf", ".PDF", ".docx", ".doc", ".txt"}} \cup {<<"cv">>}

InitResume ==
    /\ file_path \in FilePaths
    /\ document \in Documents
    /\ extractor_called = "none"
    /\ resume_text = None
    /\ resume_result = None
    /\ pc_resume = "start"
    /\ IdleLevel /\ IdleParse /\ IdleRound /\ IdleReport /\ IdleSession /\ IdleRequest /\ IdleCall

\* the branch on the extension and the extractor's call, which returns the
\* stripped text of the document or raises
ExtractText ==
    /\ pc_resume = "start"
    /\ IF ExtractorFor(file_path) = "none"
       THEN /\ pc_resume' = "failed"
            /\ UNCHANGED <<extractor_called, resume_text>>
       ELSE /\ extractor_called' = ExtractorFor(file_path)
            /\ \E extracted \in BOOLEAN :
                 IF extracted
                 THEN resume_text' = Some(StripText(document)) /\ pc_resume' = "extracted"
                 ELSE pc_resume' = "failed" /\ UNCHANGED resume_text
    /\ UNCHANGED <<file_path, document, resume_result,
                   levelVars, parseVars, roundVars, reportVars, sessionVars, requestVars, callVars>>

\* if not text.strip(): raise
RaiseNoText ==
    /\ pc_resume = "extracted"
    /\ StripText(Get(resume_text)) = <<>>
    /\ pc_resume' = "failed"
    /\ UNCHANGED <<file_path, document, extractor_called, resume_text, resume_result,
                   levelVars, parseVars, roundVars, reportVars, sessionVars, requestVars, callVars>>

ReturnResumeData ==
    /\ pc_resume = "extracted"
    /\ StripText(Get(resume_text)) # <<>>
    /\ resume_result' = Some([raw_text |-> Get(resume_text),
                              skills |-> extract_skills(Get(resume_text)),
                              contact_info |-> extract_contact_info(Get(resume_text)),
                              sections |-> _parse_sections(Get(resume_text)),
                              file_path |-> file_path])
    /\ pc_resume' = "returned"
    /\ UNCHANGED <<file_path, document, extractor_called, resume_text,
                   levelVars, parseVars, roundVars, reportVars, sessionVars, requestVars, callVars>>

NextResume == ExtractText \/ RaiseNoText \/ ReturnResumeData
SpecResume == InitResume /\ [][NextResume]_vars

(***************************************************************************)
(* SpecSections: parse_resume on longer documents of fewer kinds of lines  *)
(***************************************************************************)
MaxSectionLines == 4

SectionLines ==
    { <<>>,
      <<"Experience">>,
      <<"Experienced", "engineer">>,
      <<"EDUCATION">>,
      <<"Engineer", "at", "Acme">>,
      <<" ", "BSc", "Physics", " ">> }

InitSections ==
    /\ file_path = <<"cv", ".pdf">>
    /\ document \in SeqsUpTo(SectionLines, MaxSectionLines)
    /\ extractor_called = "none"
    /\ resume_text = None
    /\ resume_result = None
    /\ pc_resume = "start"
    /\ IdleLevel /\ IdleParse /\ IdleRound /\ IdleReport /\ IdleSession /\ IdleRequest /\ IdleCall

SpecSections == InitSections /\ [][NextResume]_vars

(***************************************************************************)
(* SpecRequest: one generate_hr_questions, generate_technical_questions or *)
(* evaluate_answer call                                                    *)
(***************************************************************************)
MaxQuestionLines == 3

\* the lines a question response is made of
QuestionLines ==
    { <<>>,
      <<" ">>,
      <<"1.", "Tell me about a challenge you overcame">>,
      <<"2.", "hi">>,
      <<"Why Python">>,
      <<" ", "2.", "Why Python?", " ">>,
      <<"3.14159 ok?">>,
      <<"Explain how you lead a team design">>,
      <<"Design a database tool in code">> }

QuestionTexts == SeqsUpTo(QuestionLines, MaxQuestionLines)

\* None: generate_content raises
LLMResponses(kind) ==
    {None} \cup {Some(t) : t \in IF kind = "evaluate" THEN EvaluationTexts ELSE QuestionTexts}

InitRequest ==
    /\ request_kind \in {"HR", "Technical", "evaluate"}
    /\ llm_response \in LLMResponses(request_kind)
    /\ generate_content_calls = 0
    /\ request_result = None
    /\ pc_request = "start"
    /\ IdleLevel /\ IdleParse /\ IdleRound /\ IdleReport /\ IdleSession /\ IdleResume /\ IdleCall

\* self.model.generate_content(prompt); when it raises, the exception goes up
\* to the page handler, which shows the error and returns
MutGenerateContent ==
    /\ pc_request = "start"
    /\ generate_content_calls' = generate_content_calls + 1
    /\ pc_request' = IF Present(llm_response) THEN "responded"
                     ELSE IF generate_content_calls = 0 THEN "start"
                     ELSE "failed"
    /\ UNCHANGED <<request_kind, llm_response, request_result,
                   levelVars, parseVars, roundVars, reportVars, sessionVars, resumeVars, callVars>>

GenerateContent ==
    /\ pc_request = "start"
    /\ generate_content_calls' = generate_content_calls + 1
    /\ pc_request' = IF Present(llm_response) THEN "responded" ELSE "failed"
    /\ UNCHANGED <<request_kind, llm_response, request_result,
                   levelVars, parseVars, roundVars, reportVars, sessionVars, resumeVars, callVars>>

\* response.text.strip() and the parser of the request
ParseResponse ==
    /\ pc_request = "responded"
    /\ request_result' =
          Some(IF request_kind = "evaluate"
               THEN evaluate_answer(Some(StripText(Get(llm_response))))
               ELSE _parse_questions(StripText(Get(llm_response)), request_kind))
    /\ pc_request' = "returned"
    /\ UNCHANGED <<request_kind, llm_response, generate_content_calls,
                   levelVars, parseVars, roundVars, reportVars, sessionVars, resumeVars, callVars>>

NextRequest == GenerateContent \/ ParseResponse
SpecRequest == InitRequest /\ [][NextRequest]_vars

(***************************************************************************)
(* SpecTempFile: the upload handler of app.py and transcribe_audio_bytes,  *)
(* each working on a temporary file                                        *)
(***************************************************************************)
MaxUploadLines == 2

UploadedDocuments == SeqsUpTo(DocumentLines, MaxUploadLines)

\* the uploader takes the types pdf, docx and doc; the temporary file gets
\* the extension of the uploaded name
UploadPaths == {<<"cv", e>> : e \in {".pdf", ".PDF", ".docx", ".doc"}}

\* result["text"].strip()
TranscribedTexts == {Strip(t) : t \in AnswerTexts}

InitTempFile ==
    /\ call_kind \in {"upload", "transcribe"}
    /\ IF call_kind = "upload"
       THEN file_path \in UploadPaths /\ document \in UploadedDocuments
       ELSE file_path = <<>> /\ document = <<>>
    /\ extractor_called = "none" /\ resume_text = None /\ resume_result = None
    /\ pc_resume = "idle"
    /\ temp_file = "none"
    /\ unlink_raised = FALSE
    /\ transcription = None
    /\ call_outcome = "running"
    /\ pc_call = "start"
    /\ IdleLevel /\ IdleParse /\ IdleRound /\ IdleReport /\ IdleSession /\ IdleRequest

\* uploaded_file.size > MAX_FILE_SIZE: an error is shown before any file is made
RejectLargeFile ==
    /\ call_kind = "upload" /\ pc_call = "start"
    /\ call_outcome' = "error"
    /\ pc_call' = "done"
    /\ UNCHANGED <<call_kind, temp_file, unlink_raised, transcription, resumeVars,
                   levelVars, parseVars, roundVars, reportVars, sessionVars, requestVars>>

\* the upload is written to a temporary file and parse_resume is called on it
SaveUpload ==
    /\ call_kind = "upload" /\ pc_call = "start"
    /\ temp_file' = "exists"
    /\ pc_resume' = "start"
    /\ pc_call' = "parsing"
    /\ UNCHANGED <<call_kind, unlink_raised, transcription, call_outcome,
                   file_path, document, extractor_called, resume_text, resume_result,
                   levelVars, parseVars, roundVars, reportVars, sessionVars, requestVars>>

\* parse_resume returned: the session keeps the resume and the file is unlinked
\* inside the try block
StoreAndUnlink ==
    /\ pc_call = "parsing" /\ pc_resume = "returned"
    /\ resume_data' = resume_result
    /\ \E unlinked \in BOOLEAN :
         IF unlinked
         THEN /\ temp_file' = "deleted"
              /\ call_outcome' = "success"
              /\ pc_call' = "done"
              /\ UNCHANGED unlink_raised
         ELSE /\ unlink_raised' = TRUE
              /\ pc_call' = "except"
              /\ UNCHANGED <<temp_file, call_outcome>>
    /\ UNCHANGED <<call_kind, transcription, resumeVars, hr_questions, technical_questions,
                   hr_answers, technical_answers, hr_evaluation, technical_evaluation,
                   interview_report, message, tmp_file_exists,
                   levelVars, parseVars, roundVars, reportVars, requestVars>>

\* parse_resume raised
ParseRaised ==
    /\ pc_call = "parsing" /\ pc_resume = "failed"
    /\ pc_call' = "except"
    /\ UNCHANGED <<call_kind, temp_file, unlink_raised, transcription, call_outcome, resumeVars,
                   levelVars, parseVars, roundVars, reportVars, sessionVars, requestVars>>

\* the except block: the error is shown, and the file, which still exists, is
\* unlinked; when that raises, the exception leaves the handler
MutExceptCleanup ==
    /\ call_kind = "upload" /\ pc_call = "except"
    /\ call_outcome' = "error"
    /\ pc_call' = "done"
    /\ UNCHANGED <<call_kind, temp_file, unlink_raised, transcription, resumeVars,
                   levelVars, parseVars, roundVars, reportVars, sessionVars, requestVars>>

ExceptCleanup ==
    /\ call_kind = "upload" /\ pc_call = "except"
    /\ \E unlinked \in BOOLEAN :
         IF unlinked
         THEN temp_file' = "deleted" /\ call_outcome' = "error" /\ UNCHANGED unlink_raised
         ELSE unlink_raised' = TRUE /\ call_outcome' = "raised" /\ UNCHANGED temp_file
    /\ pc_call' = "done"
    /\ UNCHANGED <<call_kind, transcription, resumeVars,
                   levelVars, parseVars, roundVars, reportVars, sessionVars, requestVars>>

\* transcribe_audio_bytes writes the bytes to a temporary file
SaveAudio ==
    /\ call_kind = "transcribe" /\ pc_call = "start"
    /\ temp_file' = "exists"
    /\ pc_call' = "transcribing"
    /\ UNCHANGED <<call_kind, unlink_raised, transcription, call_outcome, resumeVars,
                   levelVars, parseVars, roundVars, reportVars, sessionVars, requestVars>>

\* transcribe_audio_file: the text of the audio, or an exception
TranscribeFile ==
    /\ pc_call = "transcribing"
    /\ \/ \E t \in TranscribedTexts : transcription' = Some(t)
       \/ UNCHANGED transcription
    /\ pc_call' = "finally"
    /\ UNCHANGED <<call_kind, temp_file, unlink_raised, call_outcome, resumeVars,
                   levelVars, parseVars, roundVars, reportVars, sessionVars, requestVars>>

\* the finally block unlinks the file; an exception of the unlink or of the
\* transcription is caught by the outer except and raised as CustomException
FinallyUnlink ==
    /\ call_kind = "transcribe" /\ pc_call = "finally"
    /\ \E unlinked \in BOOLEAN :
         IF unlinked
         THEN /\ temp_file' = "deleted"
              /\ call_outcome' = IF Present(transcription) THEN "success" ELSE "error"
              /\ UNCHANGED unlink_raised
         ELSE /\ unlink_raised' = TRUE
              /\ call_outcome' = "error"
              /\ UNCHANGED temp_file
    /\ pc_call' = "done"
    /\ UNCHANGED <<call_kind, transcription, resumeVars,
                   levelVars, parseVars, roundVars, reportVars, sessionVars, requestVars>>

NextTempFile ==
    \/ RejectLargeFile
    \/ SaveUpload
    \/ ExtractText
    \/ RaiseNoText
    \/ ReturnResumeData
    \/ StoreAndUnlink
    \/ ParseRaised
    \/ ExceptCleanup
    \/ SaveAudio
    \/ TranscribeFile
    \/ FinallyUnlink

SpecTempFile == InitTempFile /\ [][NextTempFile]_vars

(***************************************************************************)
(* SpecEvaluatePage: one press of "Evaluate" on an interview page, with    *)
(* evaluate_interview_round taken pair by pair                             *)
(***************************************************************************)
MaxPageQuestions == 2

\* a round evaluation stored by an earlier press
EarlierEvaluations == {None, Some(RoundWithAverage(8 * Unit))}

\* the answers of a page with n questions: not yet laid out, or one per question
PageAnswers(n) == {<<>>} \cup [1..n -> AnswerTexts]

InitEvaluatePage ==
    /\ resume_data = Some(1)
    /\ \E n \in 1..MaxPageQuestions :
         \/ /\ hr_questions = Questions(1, "HR", n)
            /\ hr_answers \in PageAnswers(n)
            /\ hr_evaluation \in EarlierEvaluations
            /\ technical_questions = <<>> /\ technical_answers = <<>>
            /\ technical_evaluation = None
         \/ /\ technical_questions = Questions(1, "Technical", n)
            /\ technical_answers \in PageAnswers(n)
            /\ technical_evaluation \in EarlierEvaluations
            /\ hr_questions = <<>> /\ hr_answers = <<>>
            /\ hr_evaluation = None
    /\ interview_report = None
    /\ message = "none"
    /\ tmp_file_exists = FALSE
    /\ IdleLevel /\ IdleParse /\ IdleRound /\ IdleReport /\ IdleExtra

\* show_hr_interview_page with "Evaluate" pressed: the answers are brought
\* to the length of the questions, a blank answer ends the run with a warning,
\* else the pairs go to evaluate_interview_round
MutPressEvaluateHR ==
    /\ message = "none" /\ pc_round = "idle"
    /\ hr_questions # <<>>
    /\ hr_answers' = SyncAnswers(hr_questions, hr_answers)
    /\ message' = "evaluating HR"
    /\ questions_answers' \in [1..Len(hr_questions) -> SessionResponses]
    /\ pc_round' = "loop"
    /\ UNCHANGED <<evaluations, total_score, llm_calls, round_evaluation,
                   resume_data, hr_questions, technical_questions, technical_answers,
                   hr_evaluation, technical_evaluation, interview_report, tmp_file_exists,
                   levelVars, parseVars, reportVars, extraVars>>

PressEvaluateHR ==
    /\ message = "none" /\ pc_round = "idle"
    /\ hr_questions # <<>>
    /\ hr_answers' = SyncAnswers(hr_questions, hr_answers)
    /\ IF AnyBlank(hr_answers')
       THEN /\ message' = "warning"
            /\ UNCHANGED <<questions_answers, pc_round>>
       ELSE /\ message' = "evaluating HR"
            /\ questions_answers' \in [1..Len(hr_questions) -> SessionResponses]
            /\ pc_round' = "loop"
    /\ UNCHANGED <<evaluations, total_score, llm_calls, round_evaluation,
                   resume_data, hr_questions, technical_questions, technical_answers,
                   hr_evaluation, technical_evaluation, interview_report, tmp_file_exists,
                   levelVars, parseVars, reportVars, extraVars>>

\* evaluate_interview_round is back: its result is stored, or its exception shown
StoreHREvaluation ==
    /\ message = "evaluating HR" /\ pc_round \in {"done", "failed"}
    /\ IF pc_round = "done"
       THEN hr_evaluation' = round_evaluation /\ message' = "success"
       ELSE message' = "error" /\ UNCHANGED hr_evaluation
    /\ UNCHANGED <<resume_data, hr_questions, technical_questions, hr_answers,
                   technical_answers, technical_evaluation, interview_report,
                   tmp_file_exists, others>>

\* the same on show_technical_interview_page
PressEvaluateTechnical ==
    /\ message = "none" /\ pc_round = "idle"
    /\ technical_questions # <<>>
    /\ technical_answers' = SyncAnswers(technical_questions, technical_answers)
    /\ IF AnyBlank(technical_answers')
       THEN /\ message' = "warning"
            /\ UNCHANGED <<questions_answers, pc_round>>
       ELSE /\ message' = "evaluating Technical"
            /\ questions_answers' \in [1..Len(technical_questions) -> SessionResponses]
            /\ pc_round' = "loop"
    /\ UNCHANGED <<evaluations, total_score, llm_calls, round_evaluation,
                   resume_data, technical_questions, hr_questions, hr_answers,
                   technical_evaluation, hr_evaluation, interview_report, tmp_file_exists,
                   levelVars, parseVars, reportVars, extraVars>>

\* evaluate_interview_round is back: its result is stored, or its exception shown
StoreTechnicalEvaluation ==
    /\ message = "evaluating Technical" /\ pc_round \in {"done", "failed"}
    /\ IF pc_round = "done"
       THEN technical_evaluation' = round_evaluation /\ message' = "success"
       ELSE message' = "error" /\ UNCHANGED technical_evaluation
    /\ UNCHANGED <<resume_data, technical_questions, hr_questions, technical_answers,
                   hr_answers, hr_evaluation, interview_report,
                   tmp_file_exists, others>>

NextEvaluatePage ==
    \/ PressEvaluateHR
    \/ PressEvaluateTechnical
    \/ EvaluateNextPair
    \/ ReturnRound
    \/ StoreHREvaluation
    \/ StoreTechnicalEvaluation

SpecEvaluatePage == InitEvaluatePage /\ [][NextEvaluatePage]_vars

(***************************************************************************)
(* Properties                                                              *)
(***************************************************************************)
Levels == {"Excellent", "Good", "Average", "Below Average", "Needs Improvement"}

Rank(level) ==
    CASE level = "Excellent" -> 4
      [] level = "Good" -> 3
      [] level = "Average" -> 2
      [] level = "Below Average" -> 1
      [] level = "Needs Improvement" -> 0

\* the band of a score given in thousandths, as the specification words it
BandOf(a) ==
    IF a >= ExcellentMin THEN "Excellent"
    ELSE IF a >= GoodMin THEN "Good"
    ELSE IF a >= AverageMin THEN "Average"
    ELSE IF a >= BelowAverageMin THEN "Below Average"
    ELSE "Needs Improvement"

RECURSIVE SumScores(_)
SumScores(evals) ==
    IF evals = <<>> THEN 0 ELSE Head(evals).score + SumScores(Tail(evals))

Abs(x) == IF x < 0 THEN -x ELSE x

RoundDone == pc_round = "done"
ReportDone == pc_report = "done"

\* C1: in every round evaluation returned by evaluate_interview_round, the
\* performance_level is the band of the average_score stored in the same
\* record.
C1_LevelIsBandOfStoredAverage ==
    RoundDone =>
        Get(round_evaluation).performance_level = BandOf(Get(round_evaluation).average_score)

\* C2 as claimed: in every round evaluation returned, average_score is the
\* arithmetic mean of the scores of the contained evaluations and
\* total_questions is their number.
C2_AverageIsExactMean ==
    RoundDone =>
        LET r == Get(round_evaluation)
            n == Len(r.evaluations)
        IN  /\ r.total_questions = n
            /\ r.average_score * n = SumScores(r.evaluations)

\* C2 as amended: in every round evaluation returned, average_score is the
\* arithmetic mean of the contained scores rounded to two decimals (a whole
\* number of hundredths at most 0.005 away from the mean; 0 for no
\* evaluations) and total_questions is the number of contained evaluations.
C2_AverageIsRoundedMean ==
    RoundDone =>
        LET r == Get(round_evaluation)
            n == Len(r.evaluations)
        IN  /\ r.total_questions = n
            /\ r.average_score % 10 = 0
            /\ n = 0 => r.average_score = 0
            /\ 2 * Abs(r.average_score * n - SumScores(r.evaluations)) <= 10 * n

\* a round of several answers whose mean is not a whole number of hundredths
C2_Witness ==
    /\ RoundDone
    /\ Len(Get(round_evaluation).evaluations) >= 2
    /\ Get(round_evaluation).average_score * Len(Get(round_evaluation).evaluations)
           # SumScores(Get(round_evaluation).evaluations)

\* C3: _get_performance_level is total and monotonic on [0, 10]: every score
\* gets one of the five levels, a score on a band edge (8.5, 7.0, 5.5, 4.0)
\* gets the higher band, and a higher score never gets a lower level.
C3_LevelTotalMonotonic ==
    Present(level_out) =>
        /\ Get(level_out) \in Levels
        /\ level_score = 8500 => Get(level_out) = "Excellent"
        /\ level_score = 7000 => Get(level_out) = "Good"
        /\ level_score = 5500 => Get(level_out) = "Average"
        /\ level_score = 4000 => Get(level_out) = "Below Average"
        /\ level_score < 4000 => Get(level_out) = "Needs Improvement"
        /\ \A t \in LevelScores :
               t <= level_score =>
                   Rank(_get_performance_level(Frac(t, 1))) <= Rank(Get(level_out))

\* the score 7.0, on a band edge, has been given its level
C3_Witness == level_score = 7000 /\ level_out = Some("Good")

\* the mean of the averages of the rounds given, as a fraction
MeanOfPresent(hr, tech) ==
    LET avgs == (IF Present(hr) THEN <<Get(hr).average_score>> ELSE <<>>)
                \o (IF Present(tech) THEN <<Get(tech).average_score>> ELSE <<>>)
    IN  IF avgs = <<>> THEN Frac(0, 1) ELSE Frac(SumSeq(avgs), Len(avgs))

EqFrac(x, y) == x.num * y.den = y.num * x.den

\* C4: the report's overall_score is the arithmetic mean of the
\* average_score of every round present in the report, an average of 0
\* included, and 0 when neither round is present.
C4_OverallIsMeanOfPresent ==
    ReportDone =>
        EqFrac(Get(rep_report).overall_assessment.overall_score,
               MeanOfPresent(rep_hr, rep_tech))

\* C5: if the evaluation of the k-th pair fails, evaluate_interview_round
\* fails as a whole: no round evaluation is returned and no LLM call is made
\* for a pair after the k-th.
C5_FailureAbortsRound ==
    \A k \in 1..Len(llm_calls) :
        LLMFails(questions_answers[llm_calls[k]]) =>
            /\ pc_round = "failed"
            /\ round_evaluation = None
            /\ Len(llm_calls) = k
            /\ \A j \in 1..k : llm_calls[j] = j

\* the second of three pairs failed after the first had been evaluated
C5_Witness ==
    /\ pc_round = "failed"
    /\ Len(questions_answers) = 3
    /\ Len(llm_calls) = 2
    /\ Len(evaluations) = 1

SessionFields ==
    <<resume_data, hr_questions, technical_questions,
      hr_evaluation, technical_evaluation, interview_report>>

\* C6: whenever a resume upload, a question generation, a round evaluation
\* or a report generation ends with an error message, resume_data,
\* hr_questions, technical_questions, hr_evaluation, technical_evaluation and
\* interview_report hold the values they had before that action.
C6_ErrorLeavesSessionIntact ==
    [][message' = "error" => SessionFields' = SessionFields]_vars

\* C7: evaluate_interview_round on an empty sequence of pairs returns a
\* round evaluation with average_score 0, total_questions 0 and no
\* evaluations, makes no LLM call and does not raise.
C7_EmptyRound ==
    Len(questions_answers) = 0 =>
        /\ pc_round # "failed"
        /\ llm_calls = <<>>
        /\ RoundDone =>
               /\ Get(round_evaluation).average_score = 0
               /\ Get(round_evaluation).total_questions = 0
               /\ Get(round_evaluation).evaluations = <<>>

\* the call on no pairs has returned
C7_Witness == Len(questions_answers) = 0 /\ RoundDone /\ Present(round_evaluation)

\* C8: for every evaluation-response text, the score of the AnswerEvaluation
\* _parse_evaluation produces lies in 0..10.
C8_ScoreInRange ==
    ParseDone => 0 <= evaluation.score /\ evaluation.score <= 10 * Unit

InSeq(x, q) == \E i \in 1..Len(q) : q[i] = x
HasAll(tips, q) == \A i \in 1..Len(tips) : InSeq(tips[i], q)
HasNone(tips, q) == \A i \in 1..Len(tips) : ~InSeq(tips[i], q)

\* C9: the recommendations hold the two HR tips exactly when an HR round is
\* present with average_score < 6.0, the two technical tips exactly when a
\* Technical round is present with average_score < 6.0, the two generic tips
\* exactly when neither rule fired; HR tips precede technical tips, and
\* generic tips never come with HR or technical tips.
C9_RecommendationsRuleDerived ==
    ReportDone =>
        LET recs == Get(rep_report).recommendations
            hrFired == Present(rep_hr) /\ Get(rep_hr).average_score < 6000
            techFired == Present(rep_tech) /\ Get(rep_tech).average_score < 6000
        IN  /\ IF hrFired THEN HasAll(HRTips, recs) ELSE HasNone(HRTips, recs)
            /\ IF techFired THEN HasAll(TechnicalTips, recs) ELSE HasNone(TechnicalTips, recs)
            /\ IF ~hrFired /\ ~techFired
               THEN HasAll(GenericTips, recs) ELSE HasNone(GenericTips, recs)
            /\ Len(recs) = (IF hrFired THEN 2 ELSE 0) + (IF techFired THEN 2 ELSE 0)
                           + (IF ~hrFired /\ ~techFired THEN 2 ELSE 0)
            /\ \A i, j \in 1..Len(recs) :
                   InSeq(recs[i], HRTips) /\ InSeq(recs[j], TechnicalTips) => i < j

\* both rounds are below 6.0: HR tips, then technical tips
C9_Witness ==
    /\ ReportDone
    /\ Present(rep_hr) /\ Get(rep_hr).average_score < 6000
    /\ Present(rep_tech) /\ Get(rep_tech).average_score < 6000
    /\ Get(rep_report).recommendations = HRTips \o TechnicalTips

\* C10: the recommendation is a total banding of overall_score: >= 8.0
\* 'Strong candidate', >= 6.5 'Good candidate', >= 5.0 'Average candidate',
\* lower 'Needs improvement'; a band edge gets the higher label.
C10_RecommendationBanding ==
    ReportDone =>
        LET o == Get(rep_report).overall_assessment.overall_score
            r == Get(rep_report).overall_assessment.recommendation
        IN  r = IF o.num >= 8000 * o.den THEN "Strong candidate - Highly recommended"
                ELSE IF o.num >= 6500 * o.den THEN "Good candidate - Recommended"
                ELSE IF o.num >= 5000 * o.den
                THEN "Average candidate - Consider for specific roles"
                ELSE "Needs improvement - Not recommended at this time"

\* an overall score on the edge 6.5, from two rounds
C10_Witness ==
    /\ ReportDone
    /\ Present(rep_hr) /\ Present(rep_tech)
    /\ EqFrac(Get(rep_report).overall_assessment.overall_score, Frac(6500, 1))
    /\ Get(rep_report).overall_assessment.recommendation = "Good candidate - Recommended"


\* the recommendation label of a score given in thousandths
LabelOf(a) ==
    IF a >= 8000 THEN "Strong candidate - Highly recommended"
    ELSE IF a >= 6500 THEN "Good candidate - Recommended"
    ELSE IF a >= 5000 THEN "Average candidate - Consider for specific roles"
    ELSE "Needs improvement - Not recommended at this time"

\* C11: for a report built from exactly one round whose average_score is a,
\* overall_score is a, the recommendation is the band of a, and the
\* recommendations hold that round's two tips exactly when a < 6.0.
C11_SingleRoundReport ==
    (ReportDone /\ Present(rep_hr) # Present(rep_tech)) =>
        LET a == IF Present(rep_hr) THEN Get(rep_hr).average_score
                 ELSE Get(rep_tech).average_score
            tips == IF Present(rep_hr) THEN HRTips ELSE TechnicalTips
            report == Get(rep_report)
        IN  /\ EqFrac(report.overall_assessment.overall_score, Frac(a, 1))
            /\ report.overall_assessment.recommendation = LabelOf(a)
            /\ IF a < 6000 THEN HasAll(tips, report.recommendations)
               ELSE HasNone(tips, report.recommendations)

\* the scenario of the specification: HR only, average 5.0
C11_Witness ==
    /\ ReportDone
    /\ Present(rep_hr) /\ IsNone(rep_tech)
    /\ Get(rep_hr).average_score = 5000
    /\ EqFrac(Get(rep_report).overall_assessment.overall_score, Frac(5000, 1))
    /\ Get(rep_report).overall_assessment.recommendation
           = "Average candidate - Consider for specific roles"
    /\ Get(rep_report).recommendations = HRTips


\* C19: a report is generated only while hr_evaluation or
\* technical_evaluation is present.
C19_ReportNeedsAnEvaluation ==
    [][interview_report' # interview_report =>
           Present(hr_evaluation) \/ Present(technical_evaluation)]_vars

\* a report generated from the HR round alone
C19_Witness ==
    /\ Present(interview_report)
    /\ Present(hr_evaluation)
    /\ IsNone(technical_evaluation)

\* the label a line starts with, "" for a line that starts with none
LineLabel(line) ==
    IF Len(line) > 0 /\ line[1] \in {"Score:", "Strengths:", "Areas for Improvement:",
                                     "Feedback:", "Overall Assessment:"}
    THEN line[1] ELSE ""

SectionOfLabel ==
    [l \in {"Score:", "Strengths:", "Areas for Improvement:", "Feedback:",
            "Overall Assessment:"} |->
        CASE l = "Score:" -> "score"
          [] l = "Strengths:" -> "strengths"
          [] l = "Areas for Improvement:" -> "areas_for_improvement"
          [] l = "Feedback:" -> "feedback"
          [] l = "Overall Assessment:" -> "overall_assessment"]

\* the section of the last line of lines that starts with a label of labels,
\* "none" when there is no such line
LastSection(lines, labels) ==
    LET at == {i \in DOMAIN lines : LineLabel(lines[i]) \in labels}
    IN  IF at = {} THEN "none"
        ELSE SectionOfLabel[LineLabel(lines[CHOOSE i \in at : \A j \in at : j <= i])]

\* evaluation ev after line is appended to section sec
Appended(ev, sec, line) ==
    IF sec \in {"strengths", "areas_for_improvement"}
    THEN [ev EXCEPT ![sec] = @ \o SplitComma(line)]
    ELSE IF sec \in {"feedback", "overall_assessment"}
    THEN [ev EXCEPT ![sec] = @ \o line]
    ELSE ev

\* the loop is about to take a non-blank line that starts with no label
AtUnlabelledLine ==
    /\ pc_parse <= Len(evaluation_text)
    /\ Len(evaluation_text[pc_parse]) > 0
    /\ LineLabel(evaluation_text[pc_parse]) = ""

\* C20 as stated: an unlabelled non-blank line is appended to the section of
\* the most recently seen of the five labels, and changes nothing before any
\* label (a line that follows a 'Score:' line is not added to a text section).
C20_AppendsToLastLabel ==
    [][AtUnlabelledLine =>
          evaluation' = Appended(evaluation,
                                 LastSection(SubSeq(evaluation_text, 1, pc_parse - 1),
                                             {"Score:", "Strengths:", "Areas for Improvement:",
                                              "Feedback:", "Overall Assessment:"}),
                                 evaluation_text[pc_parse])]_vars

\* C20 amended: an unlabelled non-blank line is appended to the section of the
\* most recently seen of the four labels 'Strengths:', 'Areas for
\* Improvement:', 'Feedback:', 'Overall Assessment:' ('Score:' lines do not
\* count), and changes nothing when none of the four has been seen.
C20_AppendsToLastTextLabel ==
    [][AtUnlabelledLine =>
          evaluation' = Appended(evaluation,
                                 LastSection(SubSeq(evaluation_text, 1, pc_parse - 1),
                                             {"Strengths:", "Areas for Improvement:",
                                              "Feedback:", "Overall Assessment:"}),
                                 evaluation_text[pc_parse])]_vars

\* an unlabelled line after 'Strengths:' and 'Score:' lines has extended strengths
C20_Witness ==
    /\ ParseDone
    /\ evaluation_text = << <<"Strengths:", "clarity", ",", "depth">>,
                            <<"Score:", "8", "/10">>,
                            <<"clarity", ",", "brevity">> >>
    /\ evaluation.strengths = << <<"clarity">>, <<"depth">>, <<"clarity">>, <<"brevity">> >>
    /\ evaluation.score = 8000


\* the line of the text that starts with label
LineOf(label) ==
    evaluation_text[CHOOSE i \in DOMAIN evaluation_text :
                        StartsWith(evaluation_text[i], label)]

\* the rest of a label line after its label
Remainder(label) == Tail(LineOf(label))

\* C12: for a response made of exactly one line per label, the parsed score is
\* the number of the 'Score: n/10' line, strengths and areas_for_improvement
\* are the comma-separated tokens of their lines in order, and feedback and
\* overall_assessment are the remainders of their lines.
C12_RoundTrip ==
    ParseDone =>
        /\ evaluation.score = NumberValue[LineOf("Score:")[2]]
        /\ evaluation.strengths = SplitComma(Remainder("Strengths:"))
        /\ evaluation.areas_for_improvement = SplitComma(Remainder("Areas for Improvement:"))
        /\ evaluation.feedback = Remainder("Feedback:")
        /\ evaluation.overall_assessment = Remainder("Overall Assessment:")


\* no line of the text is taken for a section header
NoHeader(lines) == \A i \in DOMAIN lines : MatchingHeaders(StripLine(lines[i])) = <<>>

NonBlank(lines) == SelectSeq(lines, LAMBDA l : StripLine(l) # <<>>)

\* C13 as stated: for a text without a section header the result is one
\* section, keyed "other", holding the input lines without the blank ones.
C13_OtherHoldsInputLines ==
    (pc_resume = "returned" /\ NoHeader(Get(resume_text))) =>
        LET sections == Get(resume_result).sections
        IN  /\ DOMAIN sections = {<<"other">>}
            /\ sections[<<"other">>] = NonBlank(Get(resume_text))

\* C13 amended: for a text without a section header the result is one
\* section, keyed "other", holding the input lines without the blank ones,
\* each stripped of the whitespace at its ends, in order.
C13_OtherHoldsStrippedLines ==
    (pc_resume = "returned" /\ NoHeader(Get(resume_text))) =>
        LET sections == Get(resume_result).sections
            kept == NonBlank(Get(resume_text))
        IN  /\ DOMAIN sections = {<<"other">>}
            /\ sections[<<"other">>] = [i \in 1..Len(kept) |-> StripLine(kept[i])]

\* a text of two lines around a blank one, the last one indented
C13_Witness ==
    /\ pc_resume = "returned"
    /\ Get(resume_text) = << <<"Engineer", "at", "Acme">>, <<" ">>, <<" ", "BSc", "Physics">> >>
    /\ Get(resume_result).sections[<<"other">>]
           = << <<"Engineer", "at", "Acme">>, <<"BSc", "Physics">> >>

\* C15 as stated: a path that does not end in .pdf, .docx or .doc fails
\* without an extractor call, blank extracted text fails, and neither returns
\* ResumeData.
C15_RejectsByExactSuffix ==
    /\ (pc_resume \notin {"idle", "start"}
            /\ file_path[Len(file_path)] \notin {".pdf", ".docx", ".doc"}) =>
          (pc_resume = "failed" /\ extractor_called = "none" /\ IsNone(resume_result))
    /\ (pc_resume \in {"failed", "returned"} /\ Present(resume_text)
            /\ NonBlank(Get(resume_text)) = <<>>) =>
          (pc_resume = "failed" /\ IsNone(resume_result))

\* C15 amended: a path whose lower-cased form does not end in .pdf, .docx or
\* .doc fails without an extractor call, blank extracted text fails, and
\* neither returns ResumeData.
C15_RejectsByLowercasedSuffix ==
    /\ (pc_resume \notin {"idle", "start"}
            /\ lower[file_path[Len(file_path)]] \notin {".pdf", ".docx", ".doc"}) =>
          (pc_resume = "failed" /\ extractor_called = "none" /\ IsNone(resume_result))
    /\ (pc_resume \in {"failed", "returned"} /\ Present(resume_text)
            /\ NonBlank(Get(resume_text)) = <<>>) =>
          (pc_resume = "failed" /\ IsNone(resume_result))

\* a .txt path has failed with no extractor called
C15_Witness ==
    /\ pc_resume = "failed"
    /\ file_path = <<"cv", ".txt">>
    /\ extractor_called = "none"
    /\ IsNone(resume_result)


\* a trimmed line without its leading '<number>. ' prefix: a number and a dot
\* followed by a space
WithoutNumberPrefix(line) ==
    IF Len(line) > 1 /\ Head(line) \in {"1.", "2."} THEN Tail(line) ELSE line

RECURSIVE KeptQuestions(_)
\* the trimmed, unnumbered lines of more than 10 characters, in order
KeptQuestions(lines) ==
    IF lines = <<>> THEN <<>>
    ELSE LET q == WithoutNumberPrefix(StripLine(Head(lines)))
         IN  (IF LineLength(q) > 10 THEN <<q>> ELSE <<>>) \o KeptQuestions(Tail(lines))

\* C14: the records of _parse_questions are, in order, the response lines
\* that are longer than 10 characters once trimmed and freed of a leading
\* '<number>. ' prefix, with that prefix removed, each of the requested type.
C14_KeepsLongLines ==
    (pc_request = "returned" /\ request_kind # "evaluate") =>
        LET questions == Get(request_result)
        IN  /\ [i \in 1..Len(questions) |-> questions[i].question]
                   = KeptQuestions(Get(llm_response))
            /\ \A i \in 1..Len(questions) : questions[i].type = request_kind

\* C18: a request makes exactly one generate_content call, whether it returns
\* or fails, and makes no call after a failure.
C18_OneCallPerRequest ==
    /\ [](generate_content_calls <= 1)
    /\ [](pc_request \in {"returned", "failed"} => generate_content_calls = 1)
    /\ [][pc_request = "failed" => generate_content_calls' = generate_content_calls]_vars

\* a question request whose LLM call failed
C18_Witness ==
    /\ pc_request = "failed"
    /\ request_kind = "HR"
    /\ IsNone(llm_response)
    /\ generate_content_calls = 1
    /\ IsNone(request_result)


WorkSucceeded ==
    \/ call_kind = "upload" /\ pc_resume = "returned"
    \/ call_kind = "transcribe" /\ Present(transcription)

\* C17: a finished call whose parse or transcription succeeded reports
\* success, also when the unlink of the temporary file raised.
C17_UnlinkFailureNotEscalated ==
    (pc_call = "done" /\ WorkSucceeded) => call_outcome = "success"


\* the loop is about to take a line that starts with label
AtLabelLine(label) ==
    /\ pc_parse <= Len(evaluation_text)
    /\ StartsWith(evaluation_text[pc_parse], label)

\* the comma-split tokens of a remainder; none, or one empty token, when the
\* remainder is empty
TokensOf(remainder) ==
    IF remainder = <<>> THEN {<<>>, << <<>> >>} ELSE {SplitComma(remainder)}

\* C21: a 'Strengths:' or 'Areas for Improvement:' line replaces the content
\* of its section by the comma-split tokens of its remainder, also when the
\* label comes again and when the remainder is empty.
C21_LabelLineReplacesList ==
    [][/\ AtLabelLine("Strengths:") =>
             evaluation'.strengths \in TokensOf(Tail(evaluation_text[pc_parse]))
       /\ AtLabelLine("Areas for Improvement:") =>
             evaluation'.areas_for_improvement \in TokensOf(Tail(evaluation_text[pc_parse]))]_vars

\* the 'Score:' lines of the response, in order
ScoreLinesOf(lines) == SelectSeq(lines, LAMBDA l : StartsWith(l, "Score:"))

\* C22: the parsed score is 0 when the response has no 'Score:' line, or when
\* its 'Score:' line, the last one if there are several, holds no number
\* followed by '/10'.
C22_MalformedScoreIsZero ==
    ParseDone =>
        LET sl == ScoreLinesOf(evaluation_text)
        IN  (sl = <<>> \/ ScoreMatches(sl[Len(sl)]) = {}) => evaluation.score = 0


\* the keyword groups in their order of priority
HardWords == {"explain", "describe", "analyze", "compare", "evaluate"}
MediumWords == {"what", "how", "why", "when", "where"}
HRGroups ==
    << [name |-> "Teamwork", words |-> {"team", "teamwork", "collaboration"}],
       [name |-> "Leadership", words |-> {"lead", "leadership", "manage"}],
       [name |-> "Problem Solving", words |-> {"problem", "challenge", "difficult"}],
       [name |-> "Career Goals", words |-> {"goal", "career", "future"}] >>
TechnicalGroups ==
    << [name |-> "Programming", words |-> {"code", "programming", "algorithm"}],
       [name |-> "Database", words |-> {"database", "sql", "data"}],
       [name |-> "System Design", words |-> {"system", "architecture", "design"}],
       [name |-> "Frameworks & Tools", words |-> {"framework", "library", "tool"}] >>

\* the keywords that occur in a question
Occurring(question) == UNION {KeywordsIn(question[i]) : i \in 1..Len(question)}

\* the name of the first group with a keyword in the question
FirstGroup(groups, question, default) ==
    LET hits == {i \in 1..Len(groups) : groups[i].words \cap Occurring(question) # {}}
    IN  IF hits = {} THEN default
        ELSE groups[CHOOSE i \in hits : \A j \in hits : i <= j].name

\* C23: every question record is Hard if a Hard keyword occurs, else Medium if
\* a Medium keyword occurs, else Easy, and carries the first matching category
\* of its kind in the fixed order, else the kind's general category.
C23_FirstMatchWins ==
    (pc_request = "returned" /\ request_kind # "evaluate") =>
        \A i \in 1..Len(Get(request_result)) :
            LET r == Get(request_result)[i]
                kw == Occurring(r.question)
            IN  /\ r.difficulty = (IF kw \cap HardWords # {} THEN "Hard"
                                   ELSE IF kw \cap MediumWords # {} THEN "Medium"
                                   ELSE "Easy")
                /\ r.category = (IF request_kind = "HR"
                                 THEN FirstGroup(HRGroups, r.question, "General HR")
                                 ELSE FirstGroup(TechnicalGroups, r.question,
                                                 "General Technical"))

\* an HR question with Hard and Medium keywords and keywords of two groups
C23_Witness ==
    /\ pc_request = "returned"
    /\ request_kind = "HR"
    /\ Len(Get(request_result)) = 1
    /\ Get(request_result)[1].question = <<"Explain how you lead a team design">>
    /\ Get(request_result)[1].difficulty = "Hard"
    /\ Get(request_result)[1].category = "Teamwork"


\* C24: the LLM calls of a round are made for the pairs 1, 2, ... in this
\* order, one per step, and the i-th evaluation returned is the evaluation of
\* the i-th pair.
C24_InputOrder ==
    /\ [](llm_calls = [i \in 1..Len(llm_calls) |-> i])
    /\ [][Len(llm_calls') <= Len(llm_calls) + 1]_vars
    /\ [](pc_round = "done" =>
            /\ Len(Get(round_evaluation).evaluations) = Len(questions_answers)
            /\ \A i \in 1..Len(questions_answers) :
                 Get(round_evaluation).evaluations[i]
                     = _parse_evaluation(Get(questions_answers[i])))

\* a round of three pairs with different scores, returned in input order
C24_Witness ==
    /\ pc_round = "done"
    /\ questions_answers = << Some(<< <<"Score:", "0", "/10">> >>),
                               Some(<< <<"Score:", "4", "/10">> >>),
                               Some(<< <<"Score:", "10", "/10">> >>) >>
    /\ llm_calls = <<1, 2, 3>>
    /\ Get(round_evaluation).evaluations[1].score = 0
    /\ Get(round_evaluation).evaluations[2].score = 4000
    /\ Get(round_evaluation).evaluations[3].score = 10000


\* C27: in every report, interview_summary.overall_average equals
\* overall_assessment.overall_score.
C27_SummaryAgreesWithAssessment ==
    ReportDone =>
        EqFrac(Get(rep_report).interview_summary.overall_average,
               Get(rep_report).overall_assessment.overall_score)


\* the stripped line is taken for a section header
IsHeader(line) == MatchingHeaders(StripLine(line)) # <<>>

\* the key of the nearest header before line i, "other" when there is none
KeyBefore(lines, i) ==
    LET before == {j \in 1..(i - 1) : IsHeader(lines[j])}
    IN  IF before = {} THEN <<"other">>
        ELSE Head(MatchingHeaders(StripLine(
                 lines[CHOOSE j \in before : \A k \in before : k <= j])))

RECURSIVE ContentUnder(_, _, _)
\* the stripped content lines from line i on whose nearest header has key
ContentUnder(lines, key, i) ==
    IF i > Len(lines) THEN <<>>
    ELSE (IF StripLine(lines[i]) # <<>> /\ ~IsHeader(lines[i]) /\ KeyBefore(lines, i) = key
          THEN <<StripLine(lines[i])>> ELSE <<>>)
         \o ContentUnder(lines, key, i + 1)

\* C28: every non-blank line that is no header is in the result once, under
\* the key of the nearest header before it or under "other", also when a
\* header comes more than once.
C28_NoContentLost ==
    pc_resume = "returned" =>
        LET lines == Get(resume_text)
            sections == Get(resume_result).sections
            keys == {<<"other">>} \cup {Head(MatchingHeaders(StripLine(lines[j]))) :
                                         j \in {k \in DOMAIN lines : IsHeader(lines[k])}}
        IN  /\ DOMAIN sections = {k \in keys : ContentUnder(lines, k, 1) # <<>>}
            /\ \A k \in DOMAIN sections : sections[k] = ContentUnder(lines, k, 1)


\* C25: whenever interview_report is set, the rounds in it are the rounds
\* currently in the session.
C25_ReportCoversCurrentRounds ==
    Present(interview_report) =>
        /\ Get(interview_report).detailed_evaluations.hr_round = hr_evaluation
        /\ Get(interview_report).detailed_evaluations.technical_round = technical_evaluation

\* C26: the questions in the session were generated from the resume that is
\* in the session.
C26_QuestionsFromCurrentResume ==
    /\ \A i \in 1..Len(hr_questions) :
         hr_questions[i].question.resume = Get(resume_data)
    /\ \A i \in 1..Len(technical_questions) :
         technical_questions[i].question.resume = Get(resume_data)

\* C29: an evaluation in the session has one entry per question of its round,
\* and a question list that is not empty is never replaced.
C29_EvaluationMatchesQuestions ==
    /\ [](Present(hr_evaluation) =>
            Len(Get(hr_evaluation).evaluations) = Len(hr_questions))
    /\ [](Present(technical_evaluation) =>
            Len(Get(technical_evaluation).evaluations) = Len(technical_questions))
    /\ [][/\ hr_questions # <<>> => hr_questions' = hr_questions
          /\ technical_questions # <<>> => technical_questions' = technical_questions]_vars

\* an HR round has been evaluated, one evaluation for its one question
C29_Witness ==
    /\ Present(hr_evaluation)
    /\ Len(hr_questions) = 1
    /\ Len(Get(hr_evaluation).evaluations) = 1


\* the answers of the page in use: one per question, none blank once trimmed
AnswersComplete ==
    LET questions == IF hr_questions # <<>> THEN hr_questions ELSE technical_questions
        answers == IF hr_questions # <<>> THEN hr_answers ELSE technical_answers
    IN  /\ Len(answers) = Len(questions)
        /\ \A i \in 1..Len(answers) : answers[i] \notin {"", " "}

\* C30: a round evaluation is started, and an LLM call made, only with one
\* non-blank answer per question; otherwise the press makes no LLM call and
\* leaves the stored evaluations as they are.
C30_EvaluateOnlyCompleteAnswers ==
    /\ []((pc_round # "idle" \/ llm_calls # <<>>) => AnswersComplete)
    /\ [](message = "warning" => llm_calls = <<>> /\ pc_round = "idle")
    /\ [][~AnswersComplete' =>
             /\ hr_evaluation' = hr_evaluation
             /\ technical_evaluation' = technical_evaluation]_vars

\* Evaluate pressed with a whitespace answer: a warning, no LLM call, the
\* earlier evaluation still stored
C30_Witness ==
    /\ message = "warning"
    /\ Len(hr_questions) = 1
    /\ hr_answers = <<" ">>
    /\ llm_calls = <<>>
    /\ Present(hr_evaluation)

====
